---- MODULE Spec2Model ----
(***************************************************************************)
(* A model of the Redact request dispatch engine (src/lib/redact.js):      *)
(* route and middleware registration, the per-request handler of the HTTP  *)
(* server (URL parsing, middleware runner, body reading, route resolution, *)
(* handler invocation), the response writer `send`, and the WebSocket       *)
(* upgrade logic with its route table and connection set.                  *)
(***************************************************************************)
EXTENDS Integers, Sequences, FiniteSets, TLC

VARIABLES
  staticRoutes,   \* method -> (path -> handler)            redact.js:29
  dynamicRoutes,  \* method -> sequence of {regex, paramNames, handler}  redact.js:30
  middlewares,    \* the registered middleware, in order    redact.js:31
  nreg,           \* route definitions passed to routes() so far
  listening,      \* server.listen was called               redact.js:246
  alive,          \* the node process has not been terminated by an uncaught error
  reqs,           \* one record per connection slot: the (req, res) pair and the
                  \* position of the request listener of redact.js:74-174
  wsLoaded,       \* require('ws') succeeded: WebSocketServer is defined  redact.js:13-19
  socketRoutes,   \* path -> socket route definition        redact.js:37
  warned,         \* registerSocket logged its error         redact.js:236
  clients,        \* wss.clients                             redact.js:178, 194
  socks           \* one record per upgrade connection: the socket, later the ws

Sockets == <<wsLoaded, socketRoutes, warned, clients, socks>>

vars == <<staticRoutes, dynamicRoutes, middlewares, nreg, listening, alive, reqs,
          wsLoaded, socketRoutes, warned, clients, socks>>

-----------------------------------------------------------------------------
(* Bounds of the model *)

MaxRoutes == 2    \* route definitions registered during setup
MaxMw == 2        \* middleware registered during setup
MaxChunks == 2    \* 'data' events delivered for one request

(* Program constant *)
MAX_BODY_SIZE == 1000000

-----------------------------------------------------------------------------
(* JavaScript values.  Every value is a record with a kind k, so that any  *)
(* two values can be compared.                                             *)

Undefined == [k |-> "undefined"]
Null == [k |-> "null"]
Str(s) == [k |-> "string", s |-> s]
Obj(f) == [k |-> "object", f |-> f]          \* plain object, f: field -> value
Num(n) == [k |-> "number", n |-> n]
Circular == [k |-> "circular"]               \* an object JSON.stringify rejects
Err(m) == [k |-> "error", message |-> Str(m)] \* an Error instance

\* typeof v
TypeOf(v) ==
  CASE v.k = "undefined" -> "undefined"
    [] v.k = "string" -> "string"
    [] v.k = "number" -> "number"
    [] OTHER -> "object"

\* JSON.stringify(v) for a v with typeof v = 'object': the text null, or the
\* object's fields (all strings here) without those whose value is undefined;
\* an Error has no enumerable field; a circular structure makes it throw.
StringifyThrows(v) == v.k = "circular"
JSONStringify(v) ==
  CASE v.k = "null" -> [text |-> "null"]
    [] v.k = "object" ->
         [json |-> [n \in {m \in DOMAIN v.f : v.f[m] # Undefined} |-> v.f[n].s]]
    [] OTHER -> [json |-> <<>>]

\* String(v) for a primitive v
StringOf(v) ==
  CASE v.k = "undefined" -> [text |-> "undefined"]
    [] v.k = "null" -> [text |-> "null"]
    [] v.k = "number" -> [text |-> ToString(v.n)]
    [] OTHER -> [text |-> v.s]

\* error.message; reading a property of null or undefined throws a TypeError
MessageThrows(e) == e.k \in {"null", "undefined"}
MessageOf(e) == IF e.k = "error" THEN e.message ELSE Undefined

CircularMessage == "Converting circular structure to JSON"

-----------------------------------------------------------------------------
(* Paths are sequences of one-character strings.                           *)

WordChars == {"a", "b", "x", "y"}      \* the \w characters of the model's alphabet

P_a == <<"/", "a">>
P_b == <<"/", "b">>
P_ab == <<"/", "a", "/", "b">>
P_px == <<"/", ":", "x">>
P_a_py == <<"/", "a", "/", ":", "y">>

\* number of leading \w characters of s
RECURSIVE WordRun(_)
WordRun(s) ==
  IF s # <<>> /\ Head(s) \in WordChars THEN 1 + WordRun(Tail(s)) ELSE 0

Drop(s, n) == SubSeq(s, n + 1, Len(s))
Take(s, n) == SubSeq(s, 1, n)

\* pathToRegex: "^" + path.replace(/:\w+/g, '([^/]+)') + "$", as a sequence of
\* pattern tokens.  A ':' followed by word characters becomes a capture group;
\* every other character is copied into the pattern, where '.' is the
\* pattern language's wildcard.
RECURSIVE pathToRegex(_)
pathToRegex(path) ==
  IF path = <<>> THEN <<>>
  ELSE IF Head(path) = ":" /\ WordRun(Tail(path)) > 0
       THEN <<[t |-> "grp", c |-> ""]>>
              \o pathToRegex(Drop(path, 1 + WordRun(Tail(path))))
       ELSE <<[t |-> IF Head(path) = "." THEN "any" ELSE "lit", c |-> Head(path)]>>
              \o pathToRegex(Tail(path))

\* getParamNames: path.match(/:\w+/g).map(m => m.slice(1))
RECURSIVE getParamNames(_)
getParamNames(path) ==
  IF path = <<>> THEN <<>>
  ELSE IF Head(path) = ":" /\ WordRun(Tail(path)) > 0
       THEN <<Take(Tail(path), WordRun(Tail(path)))>>
              \o getParamNames(Drop(path, 1 + WordRun(Tail(path))))
       ELSE getParamNames(Tail(path))

\* number of leading characters of s other than '/'
RECURSIVE SegRun(_)
SegRun(s) == IF s # <<>> /\ Head(s) # "/" THEN 1 + SegRun(Tail(s)) ELSE 0

NoMatch == [ok |-> FALSE, caps |-> <<>>]

\* pathname.match(regex) for an anchored pattern: ok, and the captured groups
\* (match[1], match[2], ...).  A group is greedy and backtracks.
RECURSIVE RegexMatch(_, _), TryGroup(_, _, _)
RegexMatch(toks, s) ==
  IF toks = <<>> THEN [ok |-> s = <<>>, caps |-> <<>>]
  ELSE LET t == Head(toks) IN
    CASE t.t = "lit" ->
           IF s # <<>> /\ Head(s) = t.c THEN RegexMatch(Tail(toks), Tail(s)) ELSE NoMatch
      [] t.t = "any" ->
           IF s # <<>> THEN RegexMatch(Tail(toks), Tail(s)) ELSE NoMatch
      [] OTHER -> TryGroup(toks, s, SegRun(s))
TryGroup(toks, s, n) ==
  IF n = 0 THEN NoMatch
  ELSE LET r == RegexMatch(Tail(toks), Drop(s, n)) IN
       IF r.ok THEN [ok |-> TRUE, caps |-> <<Take(s, n)>> \o r.caps]
       ELSE TryGroup(toks, s, n - 1)

-----------------------------------------------------------------------------
(* Registration (the public API)                                           *)

RouteMethods == {"GET", "POST", "PUT", "DELETE"}     \* redact.js:218

\* The route definitions the application may pass to routes(): a path (the
\* empty path stands for a definition without one) and, per method key that
\* is present, a handler: a function or a literal value.
RouteDef(path, methods, fn) == [path |-> path, methods |-> methods, fn |-> fn]
RouteDefs ==
  {RouteDef(P_a, {"GET", "POST"}, TRUE),
   RouteDef(P_a, {"GET", "PUT"}, FALSE),
   RouteDef(P_px, {"GET", "POST"}, TRUE),
   RouteDef(P_a_py, {"GET", "DELETE"}, TRUE),
   RouteDef(<<>>, {"GET"}, TRUE)}
LitWelcome == Str("Welcome")

NoHandler == [fn |-> FALSE, id |-> 0, lit |-> Undefined]
FnHandler(i) == [fn |-> TRUE, id |-> i, lit |-> Undefined]
LitHandler(i, v) == [fn |-> FALSE, id |-> i, lit |-> v]

Contains(s, c) == \E i \in 1..Len(s) : s[i] = c

\* The effect of one routeDef on one method's tables (redact.js:219-229).
StaticAfter(m, def, h) ==
  IF m \in def.methods /\ ~Contains(def.path, ":")
  THEN (def.path :> h) @@ staticRoutes[m]
  ELSE staticRoutes[m]
DynamicAfter(m, def, h) ==
  IF m \in def.methods /\ Contains(def.path, ":")
  THEN Append(dynamicRoutes[m],
              [regex |-> pathToRegex(def.path),
               paramNames |-> getParamNames(def.path),
               handler |-> h])
  ELSE dynamicRoutes[m]

\* routes(routeDef): a definition without a path is skipped.
registerRoutes(def) ==
  /\ ~listening
  /\ nreg < MaxRoutes
  /\ nreg' = nreg + 1
  /\ LET h == IF def.fn THEN FnHandler(nreg + 1) ELSE LitHandler(nreg + 1, LitWelcome) IN
     IF def.path = <<>>
     THEN UNCHANGED <<staticRoutes, dynamicRoutes>>
     ELSE /\ staticRoutes' = [m \in RouteMethods |-> StaticAfter(m, def, h)]
          /\ dynamicRoutes' = [m \in RouteMethods |-> DynamicAfter(m, def, h)]
  /\ UNCHANGED <<middlewares, listening, alive, reqs, Sockets>>

\* use(fn): the middleware are numbered in registration order.
use ==
  /\ ~listening
  /\ Len(middlewares) < MaxMw
  /\ middlewares' = Append(middlewares, Len(middlewares) + 1)
  /\ UNCHANGED <<staticRoutes, dynamicRoutes, nreg, listening, alive, reqs, Sockets>>

\* listen(port): from here on the server accepts requests.  Registration is
\* done before the listener accepts traffic.
listen ==
  /\ ~listening
  /\ listening' = TRUE
  /\ UNCHANGED <<staticRoutes, dynamicRoutes, middlewares, nreg, alive, reqs, Sockets>>

-----------------------------------------------------------------------------
(* The response writer                                                     *)

\* A connection slot: the request context req, the response res, the local
\* variables of the request listener and, as history, what ran for it.
Idle ==
  [pc |-> "idle",
   method |-> "", url |-> <<>>, host |-> <<>>, pathname |-> <<>>,
   mwIdx |-> 0,                    \* position of the for loop over middlewares
   chunks |-> 0, received |-> 0, body |-> 0,    \* let received, let body (its length)
   hasBody |-> FALSE, reqBody |-> Undefined,    \* req.body
   hasParams |-> FALSE, params |-> <<>>,        \* req.params
   hasQuery |-> FALSE,                          \* req.query is set
   handler |-> NoHandler,          \* let handler
   input |-> Undefined,            \* const input, once a handler was called
   headersSent |-> FALSE, statusCode |-> 200, ctype |-> "", payload |-> [text |-> ""],
   sent |-> Undefined,             \* history: the value of the completed response
   destroyed |-> FALSE,
   ends |-> 0,                     \* history: calls of res.end
   written |-> 0,                  \* history: responses put on the connection
   ctx |-> {},                     \* the fields middleware attached to req
   mwSaw |-> <<>>,                 \* history: the fields of the req each middleware got
   handlerSaw |-> {},              \*   and of the req the route handler got
   mwCalls |-> <<>>,               \* history: middleware invoked, in order
   mwStop |-> 0,                   \* history: the middleware that ended the request
   mwResults |-> <<>>,             \* history: the values the middleware handed back
   mwFailed |-> FALSE,             \*   and whether it did so by throwing or rejecting
   text |-> "",                    \* history: the body text at 'end'
   failed |-> "no",                \* history: "throw" or "reject" of the handler
   error |-> Undefined,            \*   and the error thrown or rejected with
   resolves |-> 0,                 \* history: runs of executeHandler
   handlerCalls |-> 0]             \* history: invocations of a route handler

\* (mutant) every response is labelled as JSON
ContentType_AlwaysJson(content) == "application/json"

\* const type = typeof content === 'object' ? 'application/json' : 'text/plain'
ContentType(content) ==
  IF TypeOf(content) = "object" THEN "application/json" ELSE "text/plain"
Payload(content) ==
  IF TypeOf(content) = "object" THEN JSONStringify(content) ELSE StringOf(content)

\* send throws when JSON.stringify does; res.statusCode is already assigned then.
SendThrows(q, content) ==
  ~q.headersSent /\ TypeOf(content) = "object" /\ StringifyThrows(content)

\* (mutant) send without the headersSent guard
send_NoGuard(q, content, status) ==
  [q EXCEPT !.statusCode = status,
            !.ctype = ContentType(content),
            !.payload = Payload(content),
            !.sent = content,
            !.headersSent = TRUE,
            !.ends = @ + 1,
            !.written = IF q.destroyed THEN @ ELSE @ + 1]

\* send(res, content, status) when it does not throw.  res.end on a destroyed
\* connection completes the response object but puts nothing on the wire.
send(q, content, status) ==
  IF q.headersSent THEN q
  ELSE [q EXCEPT !.statusCode = status,
                 !.ctype = ContentType(content),
                 !.payload = Payload(content),
                 !.sent = content,
                 !.headersSent = TRUE,
                 !.ends = @ + 1,
                 !.written = IF q.destroyed THEN @ ELSE @ + 1]

\* the state send leaves behind when it throws
sendThrown(q, status) == [q EXCEPT !.statusCode = status]

-----------------------------------------------------------------------------
(* Route resolution and handler invocation: executeHandler                 *)

MwErrorBody == Obj([error |-> Str("Internal Middleware Error")])
NotFoundBody == Obj([error |-> Str("Not Found")])
ServerErrorBody == Obj([error |-> Str("Internal Server Error")])
ServerErrorDetails(e) ==
  Obj([error |-> Str("Internal Server Error"), details |-> MessageOf(e)])
EmptyObject == Obj(<<>>)

\* (mutant) the captures are read at match[index]: one place too early
BindParams_NoOffset(names, caps) ==
  [n \in {names[i] : i \in 1..Len(names)} |->
     LET i == CHOOSE i \in 1..Len(names) :
                names[i] = n /\ \A j \in 1..Len(names) : names[j] = n => j <= i
     IN IF i = 1 THEN <<>> ELSE caps[i - 1]]

\* route.paramNames.forEach((name, index) => req.params[name] = match[index + 1])
BindParams(names, caps) ==
  [n \in {names[i] : i \in 1..Len(names)} |->
     caps[CHOOSE i \in 1..Len(names) :
            names[i] = n /\ \A j \in 1..Len(names) : names[j] = n => j <= i]]

\* (mutant) the loop has no break: the last route that matches wins
RECURSIVE DynamicScan_NoBreak(_, _)
DynamicScan_NoBreak(routes, pathname) ==
  IF routes = <<>> THEN [handler |-> NoHandler, params |-> <<>>]
  ELSE LET match == RegexMatch(routes[Len(routes)].regex, pathname) IN
       IF match.ok
       THEN [handler |-> routes[Len(routes)].handler,
             params |-> BindParams(routes[Len(routes)].paramNames, match.caps)]
       ELSE DynamicScan_NoBreak(SubSeq(routes, 1, Len(routes) - 1), pathname)

\* the for loop over dynamicRoutes[method]: the first route whose regex matches
RECURSIVE DynamicScan(_, _)
DynamicScan(routes, pathname) ==
  IF routes = <<>> THEN [handler |-> NoHandler, params |-> <<>>]
  ELSE LET match == RegexMatch(Head(routes).regex, pathname) IN
       IF match.ok
       THEN [handler |-> Head(routes).handler,
             params |-> BindParams(Head(routes).paramNames, match.caps)]
       ELSE DynamicScan(Tail(routes), pathname)

\* (mutant) the dynamic routes are scanned before the static table is read
Resolve_DynamicFirst(method, pathname) ==
  LET dyn == DynamicScan(IF method \in RouteMethods THEN dynamicRoutes[method] ELSE <<>>,
                         pathname) IN
  IF dyn.handler # NoHandler THEN dyn
  ELSE IF method \in RouteMethods /\ pathname \in DOMAIN staticRoutes[method]
       THEN [handler |-> staticRoutes[method][pathname], params |-> <<>>]
       ELSE dyn

\* steps A and B of executeHandler: the static table first, then the scan
Resolve(method, pathname) ==
  IF method \in RouteMethods /\ pathname \in DOMAIN staticRoutes[method]
  THEN [handler |-> staticRoutes[method][pathname], params |-> <<>>]
  ELSE DynamicScan(IF method \in RouteMethods THEN dynamicRoutes[method] ELSE <<>>,
                   pathname)

\* JavaScript truthiness, for req.body || {}
Truthy(v) ==
  CASE v.k \in {"undefined", "null"} -> FALSE
    [] v.k = "string" -> v.s # ""
    [] v.k = "number" -> v.n # 0
    [] v.k = "boolean" -> v.b
    [] OTHER -> TRUE

Done(q) == [q EXCEPT !.pc = "done"]

\* (mutant) the else branch is missing: an unmatched request gets no answer
RespondNotFound_Missing(q) == Done(q)

\* else { send(res, { error: "Not Found" }, 404) }
RespondNotFound(q) == Done(send(q, NotFoundBody, 404))

\* catch (error) of executeHandler: reading error.message of null or undefined
\* throws out of the catch block, and so out of executeHandler.
CatchHandlerError(q, e) ==
  IF MessageThrows(e) THEN [q EXCEPT !.pc = "threw"]
  ELSE Done(send(q, ServerErrorDetails(e), 500))

\* send(res, value) inside the try block of executeHandler
TrySend(q, v) ==
  IF SendThrows(q, v) THEN CatchHandlerError(sendThrown(q, 200), Err(CircularMessage))
  ELSE Done(send(q, v, 200))

\* What a handler invocation can do: return a value (a string, an object, null,
\* an object that cannot be serialized), throw, or return a promise.
ReturnValues == {Str("ok"), Obj([ok |-> Str("yes")]), Null, Circular}
ThrownValues == {Err("boom"), Null}
HandlerOutcomes ==
  {[t |-> "return", v |-> v] : v \in ReturnValues}
    \cup {[t |-> "throw", v |-> e] : e \in ThrownValues}
    \cup {[t |-> "promise", v |-> Undefined]}

NoOutcome == [t |-> "none", v |-> Undefined]

\* the outcomes to choose from when executeHandler runs for q: those of the
\* handler function it calls, if it calls one
HandlerOutcomesFor(q) ==
  IF Resolve(q.method, q.pathname).handler.fn THEN HandlerOutcomes ELSE {NoOutcome}

\* executeHandler() with ho the outcome of the handler call, if one is made.
\* pc = "threw" in the result says that an exception left executeHandler.
executeHandler(q, ho) ==
  LET hit == Resolve(q.method, q.pathname)
      q1 == [q EXCEPT !.handler = hit.handler, !.hasParams = TRUE,
                      !.params = hit.params, !.resolves = @ + 1]
  IN IF hit.handler = NoHandler THEN RespondNotFound(q1)
     ELSE IF ~hit.handler.fn THEN TrySend(q1, hit.handler.lit)
     ELSE LET q2 == [q1 EXCEPT !.handlerCalls = @ + 1, !.handlerSaw = q.ctx,
                               !.input = IF Truthy(q.reqBody) THEN q.reqBody
                                         ELSE EmptyObject]
          IN CASE ho.t = "return" -> TrySend(q2, ho.v)
               [] ho.t = "throw" ->
                    CatchHandlerError([q2 EXCEPT !.failed = "throw", !.error = ho.v], ho.v)
               [] OTHER -> [q2 EXCEPT !.pc = "handlerAwait"]

\* the promise returned by the handler settles: .then(data => send(res, data))
\* and, for a rejection or a throwing send, .catch(err => send(res, ..., 500))
SettledHandler(q, s) ==
  IF s.t = "resolve" /\ ~SendThrows(q, s.v) THEN Done(send(q, s.v, 200))
  ELSE IF s.t = "resolve" THEN Done(send(sendThrown(q, 200), ServerErrorBody, 500))
  ELSE Done(send([q EXCEPT !.failed = "reject", !.error = s.v], ServerErrorBody, 500))

Settlements ==
  {[t |-> "resolve", v |-> v] : v \in ReturnValues}
    \cup {[t |-> "reject", v |-> e] : e \in ThrownValues}

-----------------------------------------------------------------------------
(* The request listener (redact.js:74-174)                                 *)

\* The connection slots.  Requests share no state but the process itself and
\* the tables, which are fixed once the server listens; one connection at a
\* time is followed here.
Slots == {1}

\* What the clients send.
ReqMethods == {"GET", "POST", "PUT", "DELETE", "PATCH"}
Urls == {P_a, P_b, P_ab, <<"/", "/">>}
Hosts == {<<"h">>, <<"h", " ">>}
ChunkSizes == {1, MAX_BODY_SIZE - 1, MAX_BODY_SIZE}

\* new URL(req.url, 'http://' + host + '/') throws for a host that is no
\* valid host and for a target such as "//", whose authority is empty.
URLThrows(url, host) ==
  \/ Contains(host, " ")
  \/ Len(url) >= 2 /\ url[1] = "/" /\ url[2] = "/"
       /\ (Len(url) = 2 \/ url[3] \in {"/", "?"})

\* parsedURL.pathname: the target up to the query string
RECURSIVE PathnameOf(_)
PathnameOf(url) ==
  IF url = <<>> \/ Head(url) = "?" THEN <<>>
  ELSE <<Head(url)>> \o PathnameOf(Tail(url))

\* What a middleware call can do: throw, or hand back something to await
\* (a value is awaited like a promise already resolved with it).
MwCallOutcomes == {"throw", "await"}
MwResults == {Undefined, Str("stop"), Obj([error |-> Str("Unauthorized Access")]), Circular}
MwSettlements ==
  {[t |-> "resolve", v |-> v] : v \in MwResults}
    \cup {[t |-> "reject", v |-> e] : e \in ThrownValues}

\* the outcomes to choose from when the loop continues at middleware i: of the
\* call of middleware i, and of the handler when step 4 calls it at once
MwCallOutcomesFor(i) ==
  IF i <= Len(middlewares) THEN MwCallOutcomes ELSE {"none"}
StepOutcomesFor(q, i) ==
  IF i > Len(middlewares) /\ q.method \notin {"POST", "PUT"}
  THEN HandlerOutcomesFor(q) ELSE {NoOutcome}

\* (mutant) the body listeners are attached for every method
BodyOrHandler_AlwaysBody(q, ho) == [q EXCEPT !.pc = "body"]

\* (mutant) executeHandler is run at once for every method
BodyOrHandler_NoBody(q, ho) == executeHandler(q, ho)

\* step 4: attach the body listeners, or run executeHandler at once
BodyOrHandler(q, ho) ==
  IF q.method \in {"POST", "PUT"} THEN [q EXCEPT !.pc = "body"]
  ELSE executeHandler(q, ho)

\* (mutant) the error is logged and nothing is sent
CatchMiddlewareError_NoResponse(q) == Done(q)

\* catch (err) of the middleware runner
CatchMiddlewareError(q) == Done(send(q, MwErrorBody, 500))

MwThrew(q) == [q EXCEPT !.mwStop = q.mwIdx, !.mwFailed = TRUE]

\* (mutant) each middleware is given a copy of the request
CallMiddleware_Copy(q, i) ==
  [q EXCEPT !.mwIdx = i, !.mwCalls = Append(@, middlewares[i]),
            !.mwSaw = Append(@, q.ctx)]

\* mw(req): middleware number i is called with the request object of q.  The
\* application's middleware attach a field of their own to the object they
\* are given.
CallMiddleware(q, i) ==
  [q EXCEPT !.mwIdx = i, !.mwCalls = Append(@, middlewares[i]),
            !.mwSaw = Append(@, q.ctx), !.ctx = @ \cup {middlewares[i]}]

\* (mutant) the middleware are all started at once and awaited together
RunMiddlewares_NoAwait(q, i, mo, ho) ==
  IF i <= Len(middlewares)
  THEN LET q1 == [q EXCEPT !.mwIdx = i, !.mwCalls = Append(@, middlewares[i])] IN
       IF mo = "throw" THEN CatchMiddlewareError(MwThrew(q1))
       ELSE IF i < Len(middlewares)
            THEN [q1 EXCEPT !.pc = "mwAwait", !.mwIdx = i + 1,
                            !.mwCalls = Append(@, middlewares[i + 1])]
            ELSE [q1 EXCEPT !.pc = "mwAwait"]
  ELSE BodyOrHandler(q, ho)

\* The for loop from middleware number i on, up to the next await: mo is the
\* outcome of calling that middleware.  After the last one comes step 4.
RunMiddlewares(q, i, mo, ho) ==
  IF i <= Len(middlewares)
  THEN LET q1 == CallMiddleware(q, i) IN
       IF mo = "throw" THEN CatchMiddlewareError(MwThrew(q1))
       ELSE [q1 EXCEPT !.pc = "mwAwait"]
  ELSE BodyOrHandler(q, ho)

\* (mutant) the value is sent but the loop goes on: the return is missing
ResumeMiddleware_NoReturn(q, s, mo, ho) ==
  IF s.t = "reject" THEN CatchMiddlewareError(MwThrew(q))
  ELSE LET q1 == [q EXCEPT !.mwResults = Append(@, s.v)] IN
       IF s.v # Undefined
       THEN RunMiddlewares(send([q1 EXCEPT !.mwStop = q.mwIdx], s.v, 200),
                           q.mwIdx + 1, "await", NoOutcome)
       ELSE RunMiddlewares(q1, q.mwIdx + 1, mo, ho)

\* The awaited result arrives: a value other than undefined is sent and ends
\* the request, undefined continues the loop, a rejection goes to the catch.
ResumeMiddleware(q, s, mo, ho) ==
  IF s.t = "reject" THEN CatchMiddlewareError(MwThrew(q))
  ELSE LET q1 == [q EXCEPT !.mwResults = Append(@, s.v)] IN
       IF s.v # Undefined
       THEN LET q2 == [q1 EXCEPT !.mwStop = q.mwIdx] IN
            IF SendThrows(q2, s.v) THEN CatchMiddlewareError(sendThrown(q2, 200))
            ELSE Done(send(q2, s.v, 200))
       ELSE RunMiddlewares(q1, q.mwIdx + 1, mo, ho)

\* An exception that leaves the async request listener rejects its promise,
\* which nothing handles: depending on the runtime's unhandled-rejection mode
\* the process is terminated or only warned.  An exception that leaves an
\* event listener is an uncaught exception and terminates the process.
AfterAsync(r, q) ==
  IF q.pc = "threw"
  THEN /\ reqs' = [reqs EXCEPT ![r] = [q EXCEPT !.pc = "rejected"]]
       /\ alive' \in BOOLEAN
  ELSE /\ reqs' = [reqs EXCEPT ![r] = q]
       /\ UNCHANGED alive

AfterListener(r, q) ==
  IF q.pc = "threw"
  THEN /\ reqs' = [reqs EXCEPT ![r] = q]
       /\ alive' = FALSE
  ELSE /\ reqs' = [reqs EXCEPT ![r] = q]
       /\ UNCHANGED alive

Setup == <<staticRoutes, dynamicRoutes, middlewares, nreg, listening, Sockets>>

\* 'request': URL parsing, then the loop up to its first await
Receive(r, method, url, host) ==
  /\ alive /\ listening
  /\ reqs[r].pc = "idle"
  /\ LET q == [Idle EXCEPT !.method = method, !.url = url, !.host = host]
         q1 == [q EXCEPT !.pathname = PathnameOf(url), !.hasQuery = TRUE] IN
     IF URLThrows(url, host)
     THEN AfterAsync(r, [q EXCEPT !.pc = "threw"])
     ELSE \E mo \in MwCallOutcomesFor(1), ho \in StepOutcomesFor(q1, 1) :
            AfterAsync(r, RunMiddlewares(q1, 1, mo, ho))
  /\ UNCHANGED Setup

\* the awaited middleware result settles
MiddlewareSettles(r, s) ==
  /\ alive
  /\ reqs[r].pc = "mwAwait"
  /\ LET q == reqs[r] IN
     IF s.t = "resolve" /\ s.v = Undefined
     THEN \E mo \in MwCallOutcomesFor(q.mwIdx + 1), ho \in StepOutcomesFor(q, q.mwIdx + 1) :
            AfterAsync(r, ResumeMiddleware(q, s, mo, ho))
     ELSE AfterAsync(r, ResumeMiddleware(q, s, "none", NoOutcome))
  /\ UNCHANGED Setup

\* (mutant) the limit is compared with >=
Data_OffByOne(r, n) ==
  /\ alive
  /\ reqs[r].pc = "body"
  /\ reqs[r].chunks < MaxChunks
  /\ LET q == [reqs[r] EXCEPT !.chunks = @ + 1, !.received = @ + n] IN
     reqs' = [reqs EXCEPT ![r] =
                IF q.received >= MAX_BODY_SIZE
                THEN [q EXCEPT !.destroyed = TRUE]
                ELSE [q EXCEPT !.body = @ + n]]
  /\ UNCHANGED <<staticRoutes, dynamicRoutes, middlewares, nreg, listening, alive, Sockets>>

\* req.on('data'): a chunk of n bytes
Data(r, n) ==
  /\ alive
  /\ reqs[r].pc = "body"
  /\ reqs[r].chunks < MaxChunks
  /\ LET q == [reqs[r] EXCEPT !.chunks = @ + 1, !.received = @ + n] IN
     reqs' = [reqs EXCEPT ![r] =
                IF q.received > MAX_BODY_SIZE
                THEN [q EXCEPT !.destroyed = TRUE]
                ELSE [q EXCEPT !.body = @ + n]]
  /\ UNCHANGED <<Setup, alive>>

\* The texts a body may hold (white space may follow each), the length of
\* each, and JSON.parse of each.
BodyTexts == {"{\"a\":\"1\"}", "0", "{"}
TextLen(text) == IF text = "{\"a\":\"1\"}" THEN 9 ELSE 1
ParseThrows(text) == text = "{"
JSONParse(text) ==
  CASE text = "{\"a\":\"1\"}" -> Obj([a |-> Str("1")])
    [] text = "0" -> Num(0)
    [] OTHER -> Undefined

\* the texts a body of n bytes may hold
BodyTextsFor(n) == IF n = 0 THEN {""} ELSE {t \in BodyTexts : TextLen(t) <= n}

\* (mutant) a parse error leaves req.body unset
ParsedBody_NoDefault(q, text) ==
  IF q.body = 0 THEN EmptyObject ELSE JSONParse(text)

\* try { req.body = body ? JSON.parse(body) : {} } catch (e) { req.body = {} }
ParsedBody(q, text) ==
  IF q.body = 0 \/ ParseThrows(text) THEN EmptyObject ELSE JSONParse(text)

\* req.on('end'): text is what the accumulated body holds
End(r, text) ==
  /\ alive
  /\ reqs[r].pc = "body"
  /\ text \in BodyTextsFor(reqs[r].body)
  /\ LET q == [reqs[r] EXCEPT !.hasBody = TRUE, !.text = text,
                              !.reqBody = ParsedBody(reqs[r], text)] IN
     \E ho \in HandlerOutcomesFor(q) : AfterListener(r, executeHandler(q, ho))
  /\ UNCHANGED Setup

\* the promise a handler returned settles
HandlerSettles(r, s) ==
  /\ alive
  /\ reqs[r].pc = "handlerAwait"
  /\ reqs' = [reqs EXCEPT ![r] = SettledHandler(reqs[r], s)]
  /\ UNCHANGED <<Setup, alive>>

\* The connection of a finished exchange goes away and its slot is free for
\* the next request.
Release(r) ==
  /\ alive
  /\ \/ reqs[r].pc \in {"done", "rejected"}
     \/ reqs[r].pc = "body" /\ reqs[r].destroyed
  /\ reqs' = [reqs EXCEPT ![r] = Idle]
  /\ UNCHANGED <<Setup, alive>>

-----------------------------------------------------------------------------
(* WebSocket support (redact.js:176-207, 234-240)                          *)

MaxMsgs == 1      \* 'message' events delivered to a handler on one connection

SockIds == {1, 2}                \* the upgrade connections followed

\* The definitions the application may pass to socket(): a path and the
\* handlers present among open, message and close.  n tells apart two
\* definitions for the same path.
SockDef(path, n, open, message, close) ==
  [path |-> path, n |-> n, open |-> open, message |-> message, close |-> close]
SockDefs ==
  {SockDef(P_a, 1, TRUE, TRUE, TRUE),
   SockDef(P_a, 2, FALSE, TRUE, FALSE),
   SockDef(P_b, 1, TRUE, FALSE, TRUE),
   SockDef(P_a_py, 1, TRUE, TRUE, TRUE)}
NoDef == SockDef(<<>>, 0, FALSE, FALSE, FALSE)

\* An upgrade connection: the raw socket, then the ws made of it; the
\* routeDef its listeners closed over; and, as history, what was called.
NoSock ==
  [st |-> "none",                \* none, open, closed, refused (socket.destroy()),
                                 \* aborted (the handshake was rejected by ws)
   pathname |-> <<>>,
   routeDef |-> NoDef,           \* const routeDef of the 'upgrade' listener
   answered |-> FALSE,           \* an HTTP response was written to the raw socket
   opens |-> 0, msgs |-> 0, closes |-> 0,     \* history: calls of the handlers
   inAtOpen |-> FALSE,           \* history: was the ws in wss.clients at open(ws)
   inAtClose |-> FALSE,          \*   and at close(ws)
   text |-> "",                  \* history: the text of the last message event
   ws |-> 0,                     \* history: the ws of the last message(ws, data, ..),
   data |-> Undefined,           \*   its data
   seen |-> {},                  \*   and the members of the clients it was given
   msgThrew |-> FALSE]           \* history: a call of message threw

\* (mutant) the table is replaced by one that holds def only
registerSocket_Only(def) ==
  /\ alive
  /\ IF wsLoaded
     THEN socketRoutes' = (def.path :> def) /\ UNCHANGED warned
     ELSE warned' = TRUE /\ UNCHANGED socketRoutes
  /\ UNCHANGED <<staticRoutes, dynamicRoutes, middlewares, nreg, listening, alive, reqs,
                 wsLoaded, clients, socks>>

\* (mutant) the guard on WebSocketServer is missing
registerSocket_NoCheck(def) ==
  /\ alive
  /\ socketRoutes' = (def.path :> def) @@ socketRoutes
  /\ UNCHANGED <<staticRoutes, dynamicRoutes, middlewares, nreg, listening, alive, reqs,
                 wsLoaded, warned, clients, socks>>

\* socket(def): without WebSocketServer the error is logged and def is dropped.
registerSocket(def) ==
  /\ alive
  /\ IF ~wsLoaded
     THEN warned' = TRUE /\ UNCHANGED socketRoutes
     ELSE socketRoutes' = (def.path :> def) @@ socketRoutes /\ UNCHANGED warned
  /\ UNCHANGED <<staticRoutes, dynamicRoutes, middlewares, nreg, listening, alive, reqs,
                 wsLoaded, clients, socks>>

\* wss.handleUpgrade(request, socket, head, cb) with a well-formed handshake:
\* the ws joins wss.clients, then cb runs: open(ws) if the route has one (ok
\* says it returns normally), then the listeners are attached.  An exception
\* of open leaves the 'upgrade' listener uncaught.
Upgraded(c, pathname, routeDef, ok) ==
  /\ clients' = clients \cup {c}
  /\ socks' = [socks EXCEPT ![c] =
       [NoSock EXCEPT !.st = "open", !.pathname = pathname, !.routeDef = routeDef,
                      !.opens = IF routeDef.open THEN 1 ELSE 0,
                      !.inAtOpen = routeDef.open /\ c \in clients']]
  /\ alive' = (~routeDef.open \/ ok)

\* (mutant) a registered path with ':' is tried as a pattern, as for HTTP routes
LookupSocket_Pattern(pathname) ==
  IF \E path \in DOMAIN socketRoutes : RegexMatch(pathToRegex(path), pathname).ok
  THEN socketRoutes[CHOOSE path \in DOMAIN socketRoutes :
                      RegexMatch(pathToRegex(path), pathname).ok]
  ELSE NoDef

\* const routeDef = socketRoutes[pathname]
LookupSocket(pathname) ==
  IF pathname \in DOMAIN socketRoutes THEN socketRoutes[pathname] ELSE NoDef

\* server.on('upgrade'): it exists only with WebSocketServer (without it node
\* hands an upgrade request to the request listener: see Receive).  valid says
\* whether the request is a well-formed WebSocket handshake; ws answers one
\* that is not with an HTTP error, closes the socket and never calls cb.
Upgrade(c, url, host, valid, ok) ==
  /\ alive /\ listening /\ wsLoaded
  /\ socks[c].st = "none"
  /\ IF URLThrows(url, host)
     THEN alive' = FALSE /\ UNCHANGED <<clients, socks>>
     ELSE LET pathname == PathnameOf(url) IN
          IF LookupSocket(pathname) # NoDef
          THEN IF valid
               THEN Upgraded(c, pathname, LookupSocket(pathname), ok)
               ELSE /\ socks' = [socks EXCEPT ![c] =
                         [NoSock EXCEPT !.st = "aborted", !.pathname = pathname,
                                        !.answered = TRUE]]
                    /\ UNCHANGED <<clients, alive>>
          ELSE /\ socks' = [socks EXCEPT ![c] =
                    [NoSock EXCEPT !.st = "refused", !.pathname = pathname]]
               /\ UNCHANGED <<clients, alive>>
  /\ UNCHANGED <<staticRoutes, dynamicRoutes, middlewares, nreg, listening, reqs,
                 wsLoaded, socketRoutes, warned>>

\* (mutant) a text that is not JSON is not passed on
MessageData_ParsedOnly(text) == IF ParseThrows(text) THEN Undefined ELSE JSONParse(text)

\* let data = message.toString(); try { data = JSON.parse(data) } catch(e) {}
MessageData(text) == IF ParseThrows(text) THEN Str(text) ELSE JSONParse(text)
MsgTexts == {"{\"a\":\"1\"}", "0", "{"}

\* (mutant) the handler gets the connections of its own path only
Message_OwnPath(c, text, ok) ==
  /\ alive
  /\ socks[c].st = "open"
  /\ socks[c].msgs < MaxMsgs
  /\ IF socks[c].routeDef.message
     THEN /\ socks' = [socks EXCEPT ![c].msgs = @ + 1,
                                    ![c].text = text,
                                    ![c].ws = c,
                                    ![c].data = MessageData(text),
                                    ![c].seen = {o \in clients :
                                                  socks[o].pathname = socks[c].pathname},
                                    ![c].msgThrew = @ \/ ~ok]
          /\ alive' = ok
     ELSE UNCHANGED <<socks, alive>>
  /\ UNCHANGED <<staticRoutes, dynamicRoutes, middlewares, nreg, listening, reqs,
                 wsLoaded, socketRoutes, warned, clients>>

\* ws.on('message'): the handler, if the route has one, gets the ws, the data
\* and wss.clients; ok says it returns normally.
Message(c, text, ok) ==
  /\ alive
  /\ socks[c].st = "open"
  /\ socks[c].msgs < MaxMsgs
  /\ IF socks[c].routeDef.message
     THEN /\ socks' = [socks EXCEPT ![c].msgs = @ + 1,
                                    ![c].text = text,
                                    ![c].ws = c,
                                    ![c].data = MessageData(text),
                                    ![c].seen = clients,
                                    ![c].msgThrew = @ \/ ~ok]
          /\ alive' = ok
     ELSE UNCHANGED <<socks, alive>>
  /\ UNCHANGED <<staticRoutes, dynamicRoutes, middlewares, nreg, listening, reqs,
                 wsLoaded, socketRoutes, warned, clients>>

\* (mutant) the closed ws stays in wss.clients
Close_KeepsMember(c, ok) ==
  /\ alive
  /\ socks[c].st = "open"
  /\ socks' = [socks EXCEPT ![c].st = "closed",
                            ![c].closes = IF @ = 0 /\ socks[c].routeDef.close THEN 1 ELSE @,
                            ![c].inAtClose = socks[c].routeDef.close /\ c \in clients]
  /\ alive' = (~socks[c].routeDef.close \/ ok)
  /\ UNCHANGED <<staticRoutes, dynamicRoutes, middlewares, nreg, listening, reqs,
                 wsLoaded, socketRoutes, warned, clients>>

\* 'close' of a ws: the listener of wss, attached first, takes it out of
\* wss.clients; then ws.on('close') calls close(ws) if the route has one.
Close(c, ok) ==
  /\ alive
  /\ socks[c].st = "open"
  /\ clients' = clients \ {c}
  /\ socks' = [socks EXCEPT ![c].st = "closed",
                            ![c].closes = IF @ = 0 /\ socks[c].routeDef.close THEN 1 ELSE @,
                            ![c].inAtClose = socks[c].routeDef.close /\ c \in clients']
  /\ alive' = (~socks[c].routeDef.close \/ ok)
  /\ UNCHANGED <<staticRoutes, dynamicRoutes, middlewares, nreg, listening, reqs,
                 wsLoaded, socketRoutes, warned>>

\* A connection that ended is forgotten; another one may come.
Forget(c) ==
  /\ alive
  /\ socks[c].st \in {"closed", "refused", "aborted"}
  /\ socks' = [socks EXCEPT ![c] = NoSock]
  /\ UNCHANGED <<staticRoutes, dynamicRoutes, middlewares, nreg, listening, alive, reqs,
                 wsLoaded, socketRoutes, warned, clients>>

-----------------------------------------------------------------------------

Init ==
  /\ staticRoutes = [m \in RouteMethods |-> <<>>]
  /\ dynamicRoutes = [m \in RouteMethods |-> <<>>]
  /\ middlewares = <<>>
  /\ nreg = 0
  /\ listening = FALSE
  /\ alive = TRUE
  /\ reqs = [r \in Slots |-> Idle]
  /\ wsLoaded = TRUE
  /\ socketRoutes = <<>>
  /\ warned = FALSE
  /\ clients = {}
  /\ socks = [c \in SockIds |-> NoSock]

Next ==
  \/ \E def \in RouteDefs : registerRoutes(def)
  \/ use
  \/ listen
  \/ \E r \in Slots, method \in ReqMethods, url \in Urls, host \in Hosts :
       Receive(r, method, url, host)
  \/ \E r \in Slots, s \in MwSettlements : MiddlewareSettles(r, s)
  \/ \E r \in Slots, n \in ChunkSizes : Data(r, n)
  \/ \E r \in Slots, text \in BodyTexts \cup {""} : End(r, text)
  \/ \E r \in Slots, s \in Settlements : HandlerSettles(r, s)
  \/ \E r \in Slots : Release(r)

Spec == Init /\ [][Next]_vars

-----------------------------------------------------------------------------
(* The socket side on its own: ws is installed, socket routes are          *)
(* registered at any time and upgrade requests arrive once the server      *)
(* listens.  No HTTP route or middleware is registered.                    *)

SockUrls == {P_a, P_b, P_ab, <<"/", "/">>}

SockNext ==
  \/ \E def \in SockDefs : registerSocket(def)
  \/ listen
  \/ \E c \in SockIds, url \in SockUrls, valid \in BOOLEAN, ok \in BOOLEAN :
       Upgrade(c, url, <<"h">>, valid, ok)
  \/ \E c \in SockIds, text \in MsgTexts, ok \in BOOLEAN : Message(c, text, ok)
  \/ \E c \in SockIds, ok \in BOOLEAN : Close(c, ok)
  \/ \E c \in SockIds : Forget(c)

SockSpec == Init /\ [][SockNext]_vars

-----------------------------------------------------------------------------
(* The server with or without the ws module: socket routes are offered for *)
(* registration in both cases, beside HTTP routes and middleware, and GET  *)
(* requests are served.                                                    *)

PlainRouteDefs == {RouteDef(P_a, {"GET"}, TRUE), RouteDef(P_px, {"GET"}, FALSE)}
PlainSockDefs == {SockDef(P_a, 1, TRUE, TRUE, TRUE), SockDef(P_b, 1, TRUE, FALSE, TRUE)}

EitherInit ==
  /\ staticRoutes = [m \in RouteMethods |-> <<>>]
  /\ dynamicRoutes = [m \in RouteMethods |-> <<>>]
  /\ middlewares = <<>>
  /\ nreg = 0
  /\ listening = FALSE
  /\ alive = TRUE
  /\ reqs = [r \in Slots |-> Idle]
  /\ wsLoaded \in BOOLEAN
  /\ socketRoutes = <<>>
  /\ warned = FALSE
  /\ clients = {}
  /\ socks = [c \in SockIds |-> NoSock]

EitherNext ==
  \/ \E def \in PlainSockDefs : registerSocket(def)
  \/ \E def \in PlainRouteDefs : registerRoutes(def)
  \/ use
  \/ listen
  \/ \E r \in Slots, url \in {P_a, P_ab} : Receive(r, "GET", url, <<"h">>)
  \/ \E r \in Slots, s \in MwSettlements : MiddlewareSettles(r, s)
  \/ \E r \in Slots, s \in Settlements : HandlerSettles(r, s)
  \/ \E r \in Slots : Release(r)

EitherSpec == EitherInit /\ [][EitherNext]_vars

-----------------------------------------------------------------------------
(* Two connections at a time: GET requests that interleave at their        *)
(* awaits.  The routes and middleware are registered as above.             *)

ConcSlots == {1, 2}
ConcRouteDefs == {RouteDef(P_a, {"GET"}, TRUE)}
ConcUrls == {P_a, <<"/", "/">>}

ConcInit ==
  /\ staticRoutes = [m \in RouteMethods |-> <<>>]
  /\ dynamicRoutes = [m \in RouteMethods |-> <<>>]
  /\ middlewares = <<>>
  /\ nreg = 0
  /\ listening = FALSE
  /\ alive = TRUE
  /\ reqs = [r \in ConcSlots |-> Idle]
  /\ wsLoaded = TRUE
  /\ socketRoutes = <<>>
  /\ warned = FALSE
  /\ clients = {}
  /\ socks = [c \in SockIds |-> NoSock]

ConcNext ==
  \/ \E def \in ConcRouteDefs : registerRoutes(def)
  \/ use
  \/ listen
  \/ \E r \in ConcSlots, url \in ConcUrls : Receive(r, "GET", url, <<"h">>)
  \/ \E r \in ConcSlots, s \in MwSettlements : MiddlewareSettles(r, s)
  \/ \E r \in ConcSlots, s \in Settlements : HandlerSettles(r, s)
  \/ \E r \in ConcSlots : Release(r)

ConcSpec == ConcInit /\ [][ConcNext]_vars

-----------------------------------------------------------------------------
(* Properties                                                              *)

Serializable(v) == ~(TypeOf(v) = "object" /\ StringifyThrows(v))

\* the response of q is exactly the one send writes for value v with status st
Carries(q, v, st) ==
  /\ q.statusCode = st
  /\ q.ctype = ContentType(v)
  /\ q.payload = Payload(v)

\* nothing after the middleware runner ran for q
NothingAfterMiddleware(q) ==
  /\ q.chunks = 0 /\ q.received = 0 /\ ~q.hasBody
  /\ q.resolves = 0 /\ q.handlerCalls = 0

\* the middleware called for q are the first n registered, each once, in order
CalledFirst(q, n) == q.mwCalls = [i \in 1..n |-> middlewares[i]]

\* some dynamic route of the method matches the pathname
DynamicMatches(method, pathname) ==
  /\ method \in RouteMethods
  /\ \E i \in 1..Len(dynamicRoutes[method]) :
       RegexMatch(dynamicRoutes[method][i].regex, pathname).ok
StaticExists(method, pathname) ==
  method \in RouteMethods /\ pathname \in DOMAIN staticRoutes[method]

\* C1 as stated: the first middleware whose awaited result is not undefined
\* causes exactly one response carrying that value with status 200, whatever
\* the value is, and nothing runs after it; while all results are undefined
\* no response exists.
C1_FirstValueAnswers200 ==
  \A r \in Slots : LET q == reqs[r] IN
    /\ (q.mwStop = 0 /\ q.resolves = 0 => q.ends = 0)
    /\ (q.mwStop # 0 /\ ~q.mwFailed =>
          /\ q.pc = "done" /\ q.ends = 1 /\ q.written = 1
          /\ Carries(q, q.mwResults[q.mwStop], 200)
          /\ CalledFirst(q, q.mwStop)
          /\ NothingAfterMiddleware(q))

\* C1 amended: a middleware whose result is undefined never causes a response;
\* the first middleware whose awaited result is not undefined (all before it
\* resulted in undefined) causes exactly one response and ends the request:
\* no later middleware, no body reading, no route resolution and no handler.
\* The response carries the value with status 200 when the value can be
\* serialized, and is the 500 middleware error otherwise.
C1_FirstValueEndsRequest ==
  \A r \in Slots : LET q == reqs[r] IN
    /\ (q.mwStop = 0 /\ q.resolves = 0 => q.ends = 0)
    /\ (q.mwStop # 0 /\ ~q.mwFailed =>
          /\ Len(q.mwResults) = q.mwStop
          /\ \A i \in 1..(q.mwStop - 1) : q.mwResults[i] = Undefined
          /\ q.mwResults[q.mwStop] # Undefined
          /\ q.pc = "done" /\ q.ends = 1 /\ q.written = 1
          /\ IF Serializable(q.mwResults[q.mwStop])
             THEN Carries(q, q.mwResults[q.mwStop], 200)
             ELSE Carries(q, MwErrorBody, 500)
          /\ CalledFirst(q, q.mwStop)
          /\ NothingAfterMiddleware(q))

\* C1 witness: the first of two middleware answered an object for a POST
C1_Witness ==
  \E r \in Slots : LET q == reqs[r] IN
    /\ Len(middlewares) = 2 /\ q.method = "POST"
    /\ q.mwStop = 1 /\ ~q.mwFailed /\ q.mwResults[1].k = "object"
    /\ q.pc = "done" /\ q.statusCode = 200

StatusCodes == {200, 404, 500}
SendValues == ReturnValues \cup MwResults \cup {NotFoundBody, ServerErrorBody, Null}

\* C2: for every request at most one response is completed (and at most one
\* reaches the connection), and once the response is completed a further send
\* of any value with any status changes nothing.
C2_AtMostOneResponse ==
  \A r \in Slots : LET q == reqs[r] IN
    /\ q.ends <= 1 /\ q.written <= q.ends
    /\ q.headersSent <=> q.ends = 1
    /\ q.headersSent =>
         \A v \in SendValues, st \in StatusCodes :
           ~SendThrows(q, v) /\ send(q, v, st) = q

\* C2 witness: a request answered 500 after its handler's promise rejected
C2_Witness ==
  \E r \in Slots : LET q == reqs[r] IN
    q.headersSent /\ q.failed = "reject" /\ q.statusCode = 500 /\ q.ends = 1

\* C3: whenever a static route of (method, pathname) exists and a dynamic
\* route of the method matches the pathname too, resolution yields the static
\* handler with empty params, in whatever order the two were registered; a
\* request resolved in that situation got the static handler.
C3_StaticBeatsDynamic ==
  /\ \A method \in ReqMethods, url \in Urls :
       LET pathname == PathnameOf(url) IN
       StaticExists(method, pathname) /\ DynamicMatches(method, pathname) =>
         Resolve(method, pathname) =
           [handler |-> staticRoutes[method][pathname], params |-> <<>>]
  /\ \A r \in Slots : LET q == reqs[r] IN
       q.resolves > 0 /\ StaticExists(q.method, q.pathname)
         /\ DynamicMatches(q.method, q.pathname) =>
           q.handler = staticRoutes[q.method][q.pathname] /\ q.params = <<>>

\* C3 witness: a request resolved to a static route that was registered after
\* a matching dynamic route
C3_Witness ==
  \E r \in Slots : LET q == reqs[r] IN
    /\ q.resolves = 1 /\ StaticExists(q.method, q.pathname)
    /\ DynamicMatches(q.method, q.pathname)
    /\ q.handler.id = 2 /\ dynamicRoutes[q.method][1].handler.id = 1

BodyMethods == {"POST", "PUT"}

\* C4: for a POST or PUT request, in whatever chunks the payload arrives: while
\* the bytes received are at most 1,000,000 the connection is not terminated
\* and every byte is kept, and at the end of the stream the body is parsed and
\* the route resolved; once they exceed 1,000,000 the connection is
\* terminated and no response reaches it.
C4_BodySizeBoundary ==
  \A r \in Slots : LET q == reqs[r] IN
    /\ q.chunks > 0 => q.method \in BodyMethods
    /\ q.received <= MAX_BODY_SIZE =>
         /\ ~q.destroyed /\ q.body = q.received
         /\ (q.hasBody => q.resolves = 1 /\ q.reqBody = ParsedBody(q, q.text))
    /\ q.received > MAX_BODY_SIZE => q.destroyed /\ q.written = 0

\* C4 witness: exactly 1,000,000 bytes arrived in two chunks and the request
\* was answered
C4_Witness ==
  \E r \in Slots : LET q == reqs[r] IN
    /\ q.received = MAX_BODY_SIZE /\ q.chunks = 2
    /\ q.hasBody /\ q.resolves = 1 /\ q.written = 1

\* C5 as stated: once the received bytes exceed the limit, no route is
\* resolved, no handler is invoked and no response is written for the request.
C5_OversizeIsTerminal ==
  \A r \in Slots : LET q == reqs[r] IN
    q.received > MAX_BODY_SIZE =>
      q.resolves = 0 /\ q.handlerCalls = 0 /\ q.written = 0

\* C6: when the stream of a POST or PUT request within the limit ends with an
\* empty payload or one that is not valid JSON, req.body is the empty object,
\* the route is resolved as for any body, a handler function is called once
\* with the empty object, a literal handler is answered with status 200 and an
\* unmatched request with 404: the payload causes no error response.
C6_BadJsonGivesEmptyBody ==
  \A r \in Slots : LET q == reqs[r] IN
    q.hasBody /\ q.received <= MAX_BODY_SIZE /\ (q.body = 0 \/ ParseThrows(q.text)) =>
      /\ q.reqBody = EmptyObject
      /\ q.resolves = 1
      /\ q.handler = Resolve(q.method, q.pathname).handler
      /\ IF q.handler.fn
         THEN q.handlerCalls = 1 /\ q.input = EmptyObject
         ELSE /\ q.handlerCalls = 0 /\ q.pc = "done"
              /\ q.statusCode = IF q.handler = NoHandler THEN 404 ELSE 200

\* C6 witness: a handler ran and answered 200 after a body that is not JSON
C6_Witness ==
  \E r \in Slots : LET q == reqs[r] IN
    /\ q.hasBody /\ q.body > 0 /\ ParseThrows(q.text)
    /\ q.handlerCalls = 1 /\ q.pc = "done" /\ q.statusCode = 200

\* C7: a request for which executeHandler runs on a live connection and whose
\* (method, pathname) has no static entry and matches no dynamic route of the
\* method (in particular every method other than GET, POST, PUT, DELETE) gets
\* exactly one response: 404, application/json, {"error":"Not Found"}; no
\* handler is invoked.
C7_UnmatchedIs404 ==
  \A r \in Slots : LET q == reqs[r] IN
    q.resolves > 0 /\ ~q.destroyed
      /\ ~StaticExists(q.method, q.pathname) /\ ~DynamicMatches(q.method, q.pathname) =>
        /\ q.pc = "done" /\ q.resolves = 1
        /\ q.ends = 1 /\ q.written = 1
        /\ q.statusCode = 404 /\ q.ctype = "application/json"
        /\ q.payload = [json |-> [error |-> "Not Found"]]
        /\ q.handlerCalls = 0

\* C7 witness: a PATCH request, for which no route can be registered, was
\* answered 404 although a route for its path exists for GET
C7_Witness ==
  \E r \in Slots : LET q == reqs[r] IN
    /\ q.method = "PATCH" /\ StaticExists("GET", q.pathname)
    /\ q.statusCode = 404 /\ q.written = 1

\* C8 as stated: when the handler fails with an Error, thrown or rejected, the
\* request gets exactly one response, with status 500 and a JSON body that has
\* an error field and holds the error's message.
C8_HandlerFailureIs500WithMessage ==
  \A r \in Slots : LET q == reqs[r] IN
    q.failed # "no" /\ q.error.k = "error" =>
      /\ q.pc = "done" /\ q.ends = 1
      /\ q.statusCode = 500 /\ q.ctype = "application/json"
      /\ "error" \in DOMAIN q.payload.json
      /\ \E f \in DOMAIN q.payload.json : q.payload.json[f] = q.error.message.s

\* C9: when a middleware throws or its awaited result rejects, the request
\* ends there with exactly one response, 500 with the JSON body
\* {"error":"Internal Middleware Error"}; the middleware called are the ones up
\* to the failing one, each once, and no body is read, no route resolved and
\* no handler invoked.
C9_MiddlewareFailureIs500 ==
  \A r \in Slots : LET q == reqs[r] IN
    q.mwFailed =>
      /\ q.pc = "done" /\ q.ends = 1 /\ q.written = 1
      /\ q.statusCode = 500 /\ q.ctype = "application/json"
      /\ q.payload = [json |-> [error |-> "Internal Middleware Error"]]
      /\ q.mwStop = q.mwIdx /\ CalledFirst(q, q.mwStop)
      /\ \A i \in 1..Len(q.mwResults) : q.mwResults[i] = Undefined
      /\ NothingAfterMiddleware(q)

\* C9 witness: the first of two middleware rejected on a POST request
C9_Witness ==
  \E r \in Slots : LET q == reqs[r] IN
    /\ Len(middlewares) = 2 /\ q.method = "POST"
    /\ q.mwFailed /\ q.mwStop = 1 /\ q.pc = "done"

\* C10 as stated: no failure of a single request terminates the server: the
\* process stays alive and goes on accepting requests.
C10_NoFailureIsFatal == alive

\* the status each place of the code passes to send with the value it sends
StatusFor(v) ==
  CASE v = NotFoundBody -> 404
    [] v = MwErrorBody \/ v = ServerErrorBody -> 500
    [] v.k = "object" /\ "details" \in DOMAIN v.f -> 500
    [] OTHER -> 200

\* a request that resolved to a literal handler answered with the literal
LiteralAnswered(q) ==
  /\ q.resolves = 1 /\ q.handlerCalls = 0
  /\ q.pc = "done" /\ q.ends = 1
  /\ q.sent = q.handler.lit /\ q.statusCode = 200
  /\ q.ctype = "text/plain" /\ q.payload = [text |-> "Welcome"]

-----------------------------------------------------------------------------
(* Route resolution on its own: an application that registers dynamic      *)
(* routes with several parameters and overlapping patterns, no middleware, *)
(* and is asked for GET requests.  The operations are the ones above.      *)

P_px_py == <<"/", ":", "x", "/", ":", "y">>
P_px_px == <<"/", ":", "x", "/", ":", "x">>
P_ba == <<"/", "b", "/", "a">>

DynRouteDefs ==
  {RouteDef(P_px, {"GET"}, TRUE),
   RouteDef(P_a_py, {"GET"}, TRUE),
   RouteDef(P_px_py, {"GET"}, TRUE),
   RouteDef(P_px_px, {"GET"}, TRUE),
   RouteDef(P_ab, {"GET"}, FALSE)}
DynUrls == {P_a, P_ab, P_ba, <<"/", "a", "/", "b", "/", "a">>}

RouteNext ==
  \/ \E def \in DynRouteDefs : registerRoutes(def)
  \/ listen
  \/ \E r \in Slots, url \in DynUrls : Receive(r, "GET", url, <<"h">>)
  \/ \E r \in Slots, s \in Settlements : HandlerSettles(r, s)
  \/ \E r \in Slots : Release(r)

RouteSpec == Init /\ [][RouteNext]_vars

\* the segments of a path: the texts between its '/' characters
RECURSIVE Segments(_)
Segments(s) ==
  IF s = <<>> \/ Head(s) # "/" THEN <<>>
  ELSE <<Take(Tail(s), SegRun(Tail(s)))>> \o Segments(Drop(Tail(s), SegRun(Tail(s))))

\* the positions, among the segments of a route path, of its parameters
RECURSIVE ParamPositions(_, _)
ParamPositions(segs, k) ==
  IF k > Len(segs) THEN <<>>
  ELSE (IF segs[k] # <<>> /\ Head(segs[k]) = ":" THEN <<k>> ELSE <<>>)
         \o ParamPositions(segs, k + 1)

\* the names a route path declares, from its segments
DeclaredNames(path) ==
  LET segs == Segments(path)
      pos == ParamPositions(segs, 1)
  IN [i \in 1..Len(pos) |-> Tail(segs[pos[i]])]

\* the segment of the pathname at the place of the route's i-th parameter
CapturedSegment(path, pathname, i) ==
  Segments(pathname)[ParamPositions(Segments(path), 1)[i]]

\* the index in dynamicRoutes[method] of the route whose handler q got
RouteOf(q) ==
  CHOOSE i \in 1..Len(dynamicRoutes[q.method]) :
    dynamicRoutes[q.method][i].handler = q.handler

ResolvedDynamic(q) ==
  /\ q.resolves > 0 /\ q.handler # NoHandler
  /\ ~StaticExists(q.method, q.pathname)

SetOf(seq) == {seq[i] : i \in 1..Len(seq)}

\* the path a registered dynamic route was made from
PathOf(route) ==
  (CHOOSE def \in DynRouteDefs :
     /\ pathToRegex(def.path) = route.regex
     /\ getParamNames(def.path) = route.paramNames).path

LastDeclared(names, i) == \A j \in 1..Len(names) : names[j] = names[i] => j <= i

MatchingRoutes(method, pathname) ==
  IF method \notin RouteMethods THEN {}
  ELSE {i \in 1..Len(dynamicRoutes[method]) :
          RegexMatch(dynamicRoutes[method][i].regex, pathname).ok}

\* C13: the dynamic routes of a method are kept in registration order and a
\* registration never replaces an entry; a request whose (method, pathname)
\* has no static entry gets the handler of the earliest registered dynamic
\* route of the method that matches, whatever more specific or later
\* registered routes match too (its handler is called once), and no handler
\* (the 404 answer) when none matches.
C13_FirstMatchWins ==
  /\ \A m \in RouteMethods : \A i, j \in 1..Len(dynamicRoutes[m]) :
       i < j => dynamicRoutes[m][i].handler.id < dynamicRoutes[m][j].handler.id
  /\ \A r \in Slots : LET q == reqs[r] IN
       q.resolves > 0 /\ ~StaticExists(q.method, q.pathname) =>
         LET hits == MatchingRoutes(q.method, q.pathname) IN
         IF hits = {} THEN q.handler = NoHandler /\ q.statusCode = 404
         ELSE /\ \E i \in hits :
                   /\ \A j \in hits : i <= j
                   /\ q.handler = dynamicRoutes[q.method][i].handler
              /\ \A j \in hits : q.handler.id <= dynamicRoutes[q.method][j].handler.id
              /\ q.handlerCalls = 1

\* C13 witness: GET /a/b got the handler of /:x/:y, registered first, although
\* the more specific /a/:y, registered second, matches too
C13_Witness ==
  \E r \in Slots : LET q == reqs[r] IN
    /\ q.resolves = 1 /\ q.pathname = P_ab /\ ~StaticExists(q.method, q.pathname)
    /\ Len(dynamicRoutes["GET"]) = 2
    /\ dynamicRoutes["GET"][1].regex = pathToRegex(P_px_py)
    /\ dynamicRoutes["GET"][2].regex = pathToRegex(P_a_py)
    /\ q.handler.id = 1 /\ q.handlerCalls = 1

\* the handlers called so far on the connections
HandlerCalls == [c \in SockIds |-> <<socks[c].opens, socks[c].msgs, socks[c].closes>>]

\* a connection whose upgrade was refused: destroyed, nothing written, nothing called
Refused(s) ==
  /\ s.st = "refused" /\ ~s.answered /\ s.routeDef = NoDef
  /\ s.opens = 0 /\ s.msgs = 0 /\ s.closes = 0

\* C14: an upgrade request whose pathname is not, character by character, a
\* registered socket path (a registered path with ':' is no pattern) has its
\* socket destroyed: no HTTP response is written, no open, message or close
\* handler of any route is called, the connection set is unchanged and never
\* holds the connection, and the connection stays refused.
C14_UnroutedUpgradeIsRefused ==
  /\ [](\A c \in SockIds : socks[c].st = "refused" => Refused(socks[c]) /\ c \notin clients)
  /\ [][\A c \in SockIds :
          /\ socks[c].st = "none" /\ socks'[c].st # "none"
               /\ socks'[c].pathname \notin DOMAIN socketRoutes =>
                 /\ Refused(socks'[c])
                 /\ clients' = clients /\ HandlerCalls' = HandlerCalls
                 /\ reqs' = reqs /\ alive'
          /\ socks[c].st = "refused" => socks'[c].st \in {"refused", "none"}]_vars

\* C14 witness: the upgrade to /a/b was refused while the socket path /a/:y is
\* registered and another connection is open
C14_Witness ==
  \E c \in SockIds :
    /\ socks[c].st = "refused" /\ socks[c].pathname = P_ab
    /\ P_a_py \in DOMAIN socketRoutes
    /\ RegexMatch(pathToRegex(P_a_py), P_ab).ok
    /\ clients # {}

\* C15: the connection set holds exactly the connections that were upgraded
\* and have not closed; a connection is in the set when its open handler runs
\* and is out of it when its close handler runs and ever after.
C15_ClientsAreTheOpenConnections ==
  /\ clients = {c \in SockIds : socks[c].st = "open"}
  /\ \A c \in SockIds :
       /\ socks[c].opens > 0 => socks[c].inAtOpen
       /\ socks[c].closes > 0 => ~socks[c].inAtClose /\ socks[c].st = "closed"
       /\ socks[c].st \in {"closed", "refused", "aborted", "none"} => c \notin clients
       /\ socks[c].st = "open" => socks[c].routeDef # NoDef

\* C15 witness: of two upgraded connections one was closed, and its close
\* handler ran, while the other is open and got a message
C15_Witness ==
  \E c, d \in SockIds :
    /\ socks[c].st = "closed" /\ socks[c].opens = 1 /\ socks[c].closes = 1
    /\ socks[d].st = "open" /\ socks[d].msgs = 1
    /\ clients = {d}

HttpSide == <<staticRoutes, dynamicRoutes, middlewares, nreg, listening, reqs>>

\* the HTTP side works by its rules: a request runs the registered middleware
\* in order and, once resolved, has the handler of the tables and one response
HttpWorks ==
  \A r \in Slots : LET q == reqs[r] IN
       /\ q.pc # "idle" => \E n \in 0..Len(middlewares) : CalledFirst(q, n)
       /\ q.resolves > 0 =>
            /\ CalledFirst(q, Len(middlewares))
            /\ q.handler = Resolve(q.method, q.pathname).handler
            /\ q.handler = NoHandler => q.pc = "done" /\ q.statusCode = 404
            /\ q.handler # NoHandler /\ ~q.handler.fn =>
                 q.pc = "done" /\ q.statusCode = 200 /\ q.sent = q.handler.lit
       /\ q.pc = "done" => q.ends = 1 /\ q.written = 1

\* C16: without socket support every socket registration is dropped: the
\* socket route table stays empty, the error is logged, nothing else changes
\* and the process lives on; with or without it a socket registration leaves
\* the HTTP side untouched, and route registration, middleware and dispatch
\* follow the same rules.
C16_SocketsAbsentOnlyDropsSockets ==
  /\ [](~wsLoaded => socketRoutes = <<>> /\ clients = {})
  /\ [](wsLoaded => ~warned)
  /\ []HttpWorks
  /\ [][(warned' # warned \/ socketRoutes' # socketRoutes) =>
          /\ HttpSide' = HttpSide /\ alive' = alive
          /\ wsLoaded' = wsLoaded]_vars

\* C16 witness: without socket support a socket registration was dropped and
\* a request went through a middleware to its handler and was answered 200
C16_Witness ==
  \E r \in Slots : LET q == reqs[r] IN
    /\ ~wsLoaded /\ warned /\ socketRoutes = <<>>
    /\ Len(q.mwCalls) = 1 /\ q.handlerCalls = 1
    /\ q.pc = "done" /\ q.statusCode = 200

\* every registered middleware ran for q, in order, and resulted in undefined
MiddlewareAllPassed(q) ==
  /\ CalledFirst(q, Len(middlewares))
  /\ q.mwResults = [i \in 1..Len(middlewares) |-> Undefined]
  /\ q.mwStop = 0 /\ ~q.mwFailed

\* how far the request listener has come
Phase(q) ==
  CASE q.pc = "idle" -> 0
    [] q.pc = "mwAwait" -> 1
    [] q.pc = "body" -> 2
    [] q.pc = "handlerAwait" -> 4
    [] OTHER -> 5

\* C17: a request goes through middleware, body reading (POST and PUT only),
\* route resolution, handler and response in this order: no body byte is
\* consumed before every middleware has completed without a response; the
\* route of a POST or PUT is resolved only once the body stream has ended, so
\* that a 404 for it comes after the whole body, and none reaches an oversized
\* request, whose connection is terminated; the handler is invoked at most
\* once and only after route resolution; a response comes from a middleware
\* or after route resolution.
C17_LifecycleOrder ==
  /\ [](\A r \in Slots : LET q == reqs[r] IN
          /\ q.chunks > 0 \/ q.hasBody \/ q.resolves > 0 => MiddlewareAllPassed(q)
          /\ q.chunks > 0 \/ q.hasBody => q.method \in BodyMethods
          /\ q.resolves > 0 /\ q.method \in BodyMethods => q.hasBody
          /\ q.resolves <= 1 /\ q.handlerCalls <= q.resolves
          /\ q.handlerCalls = 1 => q.handler.fn /\ q.handler = Resolve(q.method, q.pathname).handler
          /\ q.ends = 1 => q.pc = "done" /\ (q.mwStop # 0 \/ q.resolves = 1)
          /\ q.pc = "handlerAwait" => q.handlerCalls = 1 /\ q.ends = 0
          /\ q.received > MAX_BODY_SIZE => q.destroyed /\ q.written = 0)
  /\ [][\A r \in Slots :
          /\ reqs'[r].pc # "idle" => Phase(reqs'[r]) >= Phase(reqs[r])
          /\ reqs'[r].resolves > reqs[r].resolves =>
               reqs[r].pc = IF reqs'[r].method \in BodyMethods THEN "body"
                            ELSE IF Len(middlewares) = 0 THEN "idle" ELSE "mwAwait"
          /\ reqs'[r].chunks > reqs[r].chunks => reqs[r].pc = "body" /\ reqs'[r].pc = "body"]_vars

\* C17 witness: a POST to a path without route went through two middleware,
\* had its body of two chunks read to the end and then was answered 404
C17_Witness ==
  \E r \in Slots : LET q == reqs[r] IN
    /\ q.method = "POST" /\ Len(q.mwCalls) = 2
    /\ q.chunks = 2 /\ q.hasBody /\ q.resolves = 1
    /\ q.statusCode = 404 /\ q.written = 1

\* the middleware of q that were started and whose result has not arrived
InFlight(q) ==
  IF q.pc = "mwAwait" THEN {i \in 1..Len(q.mwCalls) : i > Len(q.mwResults)} ELSE {}

\* C18: the middleware of one request run one after the other in registration
\* order: middleware i+1 is started only when the awaited result of
\* middleware i has arrived and is undefined, at most one middleware of a
\* request is in flight at any time, and a step of one request starts or
\* resumes no middleware of another.
C18_MiddlewareSequential ==
  /\ [](\A r \in ConcSlots : LET q == reqs[r] IN
          /\ CalledFirst(q, Len(q.mwCalls))
          /\ Len(q.mwResults) <= Len(q.mwCalls)
          /\ Len(q.mwCalls) - Len(q.mwResults) <= 1
          /\ \A i \in 1..(Len(q.mwCalls) - 1) : q.mwResults[i] = Undefined
          /\ Cardinality(InFlight(q)) <= 1
          /\ q.pc = "mwAwait" => InFlight(q) = {q.mwIdx} /\ q.mwIdx = Len(q.mwCalls))
  /\ [][\A r \in ConcSlots :
          /\ Len(reqs'[r].mwCalls) > Len(reqs[r].mwCalls) =>
               /\ Len(reqs'[r].mwCalls) = Len(reqs[r].mwCalls) + 1
               /\ reqs'[r].mwResults = [i \in 1..Len(reqs[r].mwCalls) |-> Undefined]
               /\ \A o \in ConcSlots \ {r} : reqs'[o] = reqs[o]]_vars

\* C18 witness: two requests are in flight, one awaiting the second
\* middleware and one awaiting the first
C18_Witness ==
  /\ reqs[1].pc = "mwAwait" /\ reqs[1].mwIdx = 2
  /\ reqs[2].pc = "mwAwait" /\ reqs[2].mwIdx = 1

Awaiting(q) == q.pc \in {"mwAwait", "handlerAwait"}

\* C19 as stated: a request whose awaited result has not arrived has no
\* response, and it holds up no other request: every step another request
\* takes while it waits leaves that request answered, or waiting for a result
\* or a body of its own, and leaves the server running.
C19_HungRequestStallsOnlyItself ==
  [][\A r \in ConcSlots : Awaiting(reqs[r]) =>
       /\ reqs[r].ends = 0
       /\ \A o \in ConcSlots \ {r} : reqs'[o] # reqs[o] =>
            /\ reqs'[o].pc \in {"idle", "mwAwait", "body", "handlerAwait", "done"}
            /\ alive']_vars

\* C20 as stated: whenever a middleware of a request runs, and from then on,
\* req.params is set and is the empty mapping until a route binds it, and
\* req.query is populated.
C20_ParamsEmptyBeforeMiddleware ==
  \A r \in Slots : LET q == reqs[r] IN
    Len(q.mwCalls) > 0 =>
      /\ q.hasQuery
      /\ q.hasParams
      /\ q.resolves = 0 => q.params = <<>>

\* C21 as stated: when the non-empty payload of a POST or PUT request parses
\* as JSON, the handler function is called with the parsed value as its first
\* argument, whatever JSON value it is, and that argument is req.body.
C21_HandlerGetsParsedBody ==
  \A r \in Slots : LET q == reqs[r] IN
    q.method \in BodyMethods /\ q.handlerCalls = 1
      /\ q.body > 0 /\ ~ParseThrows(q.text) =>
        /\ q.reqBody = JSONParse(q.text)
        /\ q.input = JSONParse(q.text)
        /\ q.input = q.reqBody

\* C22: for a request of a method other than POST and PUT no body listener
\* is attached and no body byte is consumed, so the size limit never
\* terminates its connection; its route is resolved in the step in which the
\* last middleware completes (at once when none is registered), and a handler
\* function gets an empty object as its input.
C22_NoBodyForOtherMethods ==
  \A r \in Slots : LET q == reqs[r] IN
    q.pc # "idle" /\ q.method \notin BodyMethods =>
      /\ q.pc # "body"
      /\ q.chunks = 0 /\ q.received = 0 /\ q.body = 0
      /\ ~q.hasBody /\ q.reqBody = Undefined
      /\ ~q.destroyed
      /\ q.resolves <= 1
      /\ (q.resolves = 1) <=> (q.hasQuery /\ MiddlewareAllPassed(q))
      /\ q.handlerCalls = 1 => q.input = EmptyObject

\* C22 witness: a DELETE request went through two middleware and its handler
\* was called with an empty object
C22_Witness ==
  \E r \in Slots : LET q == reqs[r] IN
    /\ q.method = "DELETE" /\ Len(q.mwCalls) = 2
    /\ q.handlerCalls = 1 /\ q.input = EmptyObject
    /\ q.pc = "done" /\ q.statusCode = 200

-----------------------------------------------------------------------------
(* Pattern matching on its own: an application that registers a dynamic    *)
(* route whose path holds a '.', next to plain dynamic routes, and is      *)
(* asked for GET requests.  The operations are the ones above.             *)

P_px_dot_a == <<"/", ":", "x", ".", "a">>
P_b_dot_a == <<"/", "b", ".", "a">>
P_bba == <<"/", "b", "b", "a">>

PatRouteDefs ==
  {RouteDef(P_px_dot_a, {"GET"}, TRUE),
   RouteDef(P_a_py, {"GET"}, TRUE),
   RouteDef(P_px_py, {"GET"}, TRUE)}
PatUrls == {P_b_dot_a, P_bba, P_ba, P_ab, P_a}

PatNext ==
  \/ \E def \in PatRouteDefs : registerRoutes(def)
  \/ listen
  \/ \E r \in Slots, url \in PatUrls : Receive(r, "GET", url, <<"h">>)
  \/ \E r \in Slots, s \in Settlements : HandlerSettles(r, s)
  \/ \E r \in Slots : Release(r)

PatSpec == Init /\ [][PatNext]_vars

\* the path a dynamic route registered under PatSpec was made from
PatPathOf(route) ==
  (CHOOSE def \in PatRouteDefs :
     /\ pathToRegex(def.path) = route.regex
     /\ getParamNames(def.path) = route.paramNames).path

\* the matching the claim describes: a parameter marker takes one or more
\* characters other than '/', every other character of the route path must be
\* the character of the concrete path at its place, nothing may be left over
RECURSIVE StatedMatch(_, _)
StatedMatch(path, s) ==
  IF path = <<>> THEN s = <<>>
  ELSE IF Head(path) = ":" /\ WordRun(Tail(path)) > 0
       THEN \E n \in 1..SegRun(s) :
              StatedMatch(Drop(path, 1 + WordRun(Tail(path))), Drop(s, n))
       ELSE s # <<>> /\ Head(s) = Head(path) /\ StatedMatch(Tail(path), Tail(s))

\* C23: the compiled pattern of a route path matches a concrete path exactly
\* when the two have the same number of segments, every parameter takes one
\* non-empty run without '/', and every other character of the route path,
\* '.' included, is the character at its place in the concrete path; so a
\* resolved request has the handler of a dynamic route only if that route's
\* path matches its pathname in this way, and has none only if no registered
\* route's path does.
C23_MatchesLiterally ==
  \A r \in Slots : LET q == reqs[r] IN
    q.resolves > 0 /\ ~StaticExists(q.method, q.pathname) =>
      /\ \A i \in 1..Len(dynamicRoutes[q.method]) :
           LET route == dynamicRoutes[q.method][i] IN
           RegexMatch(route.regex, q.pathname).ok <=>
             /\ StatedMatch(PatPathOf(route), q.pathname)
             /\ Len(Segments(PatPathOf(route))) = Len(Segments(q.pathname))
      /\ q.handler # NoHandler =>
           StatedMatch(PatPathOf(dynamicRoutes[q.method][RouteOf(q)]), q.pathname)

C25_MessageHandledOnce ==
  /\ [](\A c \in SockIds : LET k == socks[c] IN
          k.msgs > 0 =>
            /\ k.routeDef.message /\ k.ws = c
            /\ k.text = "{" => k.data = Str("{")
            /\ k.text = "0" => k.data = Num(0)
            /\ k.text = "{\"a\":\"1\"}" => k.data = Obj([a |-> Str("1")]))
  /\ [][\A c \in SockIds :
          /\ socks[c].st = "open" /\ socks[c].routeDef.message /\ socks'[c].st = "open"
               /\ (\E t \in MsgTexts, ok \in BOOLEAN : Message(c, t, ok))
               => socks'[c].msgs = socks[c].msgs + 1
          /\ socks'[c].msgs > socks[c].msgs =>
               /\ socks'[c].msgs = socks[c].msgs + 1
               /\ socks'[c].text \in MsgTexts
               /\ socks'[c].st = "open" /\ c \in clients'
               /\ ~socks'[c].msgThrew => alive'
               /\ \A o \in SockIds \ {c} : socks'[o] = socks[o]]_vars

\* C25 witness: a connection got a message that is not JSON, its handler was
\* called with the text, and the connection is open and the server running
C25_Witness ==
  \E c \in SockIds : LET k == socks[c] IN
    /\ k.msgs = 1 /\ k.text = "{" /\ k.data = Str("{") /\ k.ws = c
    /\ k.st = "open" /\ c \in clients /\ alive

\* C26: a socket registration replaces the entry of its own path and leaves
\* the entries of all other paths and every connection as they were; an
\* upgrade uses the entry its path has at that time, which is the one
\* registered last for exactly this path; and a connection that is open keeps
\* the handler set it was upgraded with, whatever is registered afterwards.
C26_SocketLastWins ==
  /\ [](\A p \in DOMAIN socketRoutes : socketRoutes[p].path = p)
  /\ [][/\ \A def \in SockDefs : registerSocket(def) =>
              /\ socketRoutes'[def.path] = def
              /\ DOMAIN socketRoutes' = DOMAIN socketRoutes \cup {def.path}
              /\ \A p \in DOMAIN socketRoutes \ {def.path} :
                   socketRoutes'[p] = socketRoutes[p]
              /\ socks' = socks /\ clients' = clients
        /\ \A c \in SockIds :
              /\ socks[c].st = "none" /\ socks'[c].st = "open" =>
                   /\ socks'[c].routeDef = socketRoutes[socks'[c].pathname]
                   /\ socketRoutes' = socketRoutes
              /\ socks[c].st = "open" /\ socks'[c].st \in {"open", "closed"} =>
                   socks'[c].routeDef = socks[c].routeDef]_vars

\* C26 witness: a connection upgraded on /a under the first registration
\* is open and has handled a message, the path has been registered again
\* since, and a second connection on /a is open with the later handler set
C26_Witness ==
  /\ socks[1].st = "open" /\ socks[1].pathname = P_a /\ socks[1].routeDef.n = 1
  /\ socks[1].msgs = 1
  /\ socketRoutes[P_a].n = 2
  /\ socks[2].st = "open" /\ socks[2].pathname = P_a /\ socks[2].routeDef.n = 2

\* C28: the collection a message handler is given is the one set of the
\* server: at the call it holds every connection that was upgraded and has
\* not closed, whatever socket path it was upgraded on, the handler's own
\* connection among them.
C28_HandlerGetsAllConnections ==
  [][\A c \in SockIds : socks'[c].msgs > socks[c].msgs =>
       /\ socks'[c].seen = {o \in SockIds : socks[o].st = "open"}
       /\ socks'[c].seen = clients
       /\ c \in socks'[c].seen]_vars

\* C28 witness: the message handler of a connection on /a was given a
\* collection that holds an open connection on /b too
C28_Witness ==
  /\ socks[1].pathname = P_a /\ socks[1].msgs = 1 /\ socks[1].seen = {1, 2}
  /\ socks[2].pathname = P_b /\ socks[2].st = "open"

-----------------------------------------------------------------------------
(* Progress: one connection at a time, GET and POST requests, with the     *)
(* events a request waits for arriving in the end: an awaited middleware   *)
(* result, the 'end' of the body stream, the settling of the promise a     *)
(* handler returned.  The operations are the ones above.                    *)

ProgRouteDefs == {RouteDef(P_a, {"GET", "POST"}, TRUE)}
ProgMethods == {"GET", "POST"}
ProgUrls == {P_a, P_b}

ProgNext ==
  \/ \E def \in ProgRouteDefs : registerRoutes(def)
  \/ use
  \/ listen
  \/ \E r \in Slots, method \in ProgMethods, url \in ProgUrls :
       Receive(r, method, url, <<"h">>)
  \/ \E r \in Slots, s \in MwSettlements : MiddlewareSettles(r, s)
  \/ \E r \in Slots, n \in ChunkSizes : Data(r, n)
  \/ \E r \in Slots, text \in BodyTexts \cup {""} : End(r, text)
  \/ \E r \in Slots, s \in Settlements : HandlerSettles(r, s)
  \/ \E r \in Slots : Release(r)

FairSpec ==
  /\ Init /\ [][ProgNext]_vars
  /\ \A r \in Slots :
       /\ WF_vars(\E s \in MwSettlements : MiddlewareSettles(r, s))
       /\ WF_vars(\E text \in BodyTexts \cup {""} : End(r, text))
       /\ WF_vars(\E s \in Settlements : HandlerSettles(r, s))

\* C27: when every awaited result and every 'end' arrives in the end, a
\* request whose URL was parsed gets its response or has its connection
\* terminated by the size limit: it does not stay without either for ever.
C27_Progress ==
  \A r \in Slots :
    (reqs[r].pc # "idle" /\ reqs[r].hasQuery)
      ~> (reqs[r].ends > 0 \/ reqs[r].destroyed)

====
